---- MODULE Spec2Model ----
(***************************************************************************)
(* EggTimer: the timer lifecycle engine (TimerService), the NodeScheduler  *)
(* and the in-memory store, as a state machine.                            *)
(*                                                                         *)
(* Every async method of TimerService is split at its awaits: the code     *)
(* between two awaits runs as one step (Node runs it to the next await     *)
(* without interruption), and suspended continuations are resumed in any   *)
(* order.  InMemoryTimerStore.get/put have no await of their own, so the   *)
(* read or write of the map happens in the step that calls them and the    *)
(* caller's continuation is a later step.                                  *)
(*                                                                         *)
(* Time is the monotonic clock performance.now(), in whole milliseconds.   *)
(* The record fields name and createdAt are written once by createTimer,   *)
(* copied by every other operation and read by none: they are left out.    *)
(***************************************************************************)
EXTENDS Integers, Sequences, FiniteSets, TLC

\* ----------------------------------------------------------------- bounds
MaxId     == 2   \* timer ids generateId can return
MaxTime   == 2   \* last value of the monotonic clock
MaxTasks  == 2   \* engine operations and firing callbacks in progress at once
MaxWaits  == 2   \* scheduler waits (sleep promises) not yet finished at once
MaxEvents == 4   \* Spec: no new call once events out + calls in progress reach this
MaxSerialEvents == 7  \* SerialSpec: no new call once this many events are out
MaxSerialId == 1      \* SerialSpec: the ids its callers' createTimer draws
MaxRawEvents == 3     \* RawSpec: no new call once this many events are out
MaxLen == 4           \* ParseSpec: longest duration string over ParseAlphabet
MaxFaultEvents == 3   \* FaultSpec: no new call once this many events are out
MaxHandlers == 2      \* BusSpec: handlers that subscribe to the event bus
MaxEmitted == 3       \* BusSpec: events handed to emit
MaxObserved == 2      \* ObservedBusSpec: events handed to emit
MaxLiveEvents == 3    \* LiveSpec: no new call once events out + calls in progress reach this

Ids   == 1..MaxId
SerialIds == 1..MaxSerialId
Slots == 1..MaxTasks
Ctls  == 1..MaxWaits
Handlers == 1..MaxHandlers

\* ------------------------------------------------------- program constants
\* node:timers/promises setTimeout: a delay below 1 or above 2^31-1 becomes 1
TIMEOUT_MAX == 2147483647

\* ------------------------------------------------------------ Timer record
RUNNING   == "running"
PAUSED    == "paused"
COMPLETED == "completed"
CANCELED  == "canceled"

TIMER_CREATED   == "timer_created"
TIMER_COMPLETED == "timer_completed"
TIMER_PAUSED    == "timer_paused"
TIMER_RESUMED   == "timer_resumed"
TIMER_CANCELED  == "timer_canceled"

EventTypes ==
  {TIMER_CREATED, TIMER_COMPLETED, TIMER_PAUSED, TIMER_RESUMED, TIMER_CANCELED}

\* InMemoryEventBus.listeners.get(type): no Set yet (undefined), or the Set of
\* the type's handlers in insertion order
NoSet == [exists |-> FALSE, handlers |-> <<>>]

\* what Map.get gives for an id with no entry (store.get resolves to null)
Null == [status |-> "null", durationMs |-> 0, startMonotonicMs |-> 0,
         remainingMs |-> 0, paused |-> FALSE]

Max(a, b) == IF a >= b THEN a ELSE b

VARIABLES
  now,              \* performance.now()
  timers,           \* InMemoryTimerStore.timers : id -> record or Null
  scheduledTimers,  \* NodeScheduler.scheduledTimers : id -> controller or 0
  waits,            \* one per schedule() call still running: its sleep promise
  tasks,            \* engine calls in progress: local variables and position
  events,           \* every event handed to eventBus.emit, in order
  listeners,        \* InMemoryEventBus.listeners : type -> Set of handlers
  immediates,       \* the setImmediate queue: deliveries emit has deferred
  handled,          \* per handler: the events it was invoked with, in order
  canceledIds,      \* ids whose cancel(id) returned, with no schedule(id) since
  shutDown,         \* NodeScheduler.shutdown() has returned
  subscribedAtEmit  \* per emit call on the bus: the handlers of the type then

\* what the engine's own steps leave alone: the event bus behind emit, and
\* the record of the direct calls made on the scheduler
ext == <<listeners, immediates, handled, canceledIds, shutDown,
         subscribedAtEmit>>

vars == <<now, timers, scheduledTimers, waits, tasks, events,
          listeners, immediates, handled, canceledIds, shutDown,
          subscribedAtEmit>>

\* ------------------------------------------------------------ parseDuration
\* A duration spec: a number, an object {ms: n}, or a string (a sequence of
\* one-character strings).
Num(n) == [kind |-> "number", n |-> n, s |-> <<>>]
Ms(n)  == [kind |-> "object", n |-> n, s |-> <<>>]
Str(s) == [kind |-> "string", n |-> 0, s |-> s]

Digits == {"0", "1", "2", "3", "4", "5", "6", "7", "8", "9"}
Units  == {"s", "m", "h", "d"}

DigitVal(c) ==
  CASE c = "0" -> 0 [] c = "1" -> 1 [] c = "2" -> 2 [] c = "3" -> 3
    [] c = "4" -> 4 [] c = "5" -> 5 [] c = "6" -> 6 [] c = "7" -> 7
    [] c = "8" -> 8 [] c = "9" -> 9

\* String.prototype.toLowerCase on one character
toLowerCase(c) ==
  CASE c = "S" -> "s" [] c = "M" -> "m" [] c = "H" -> "h" [] c = "D" -> "d"
    [] OTHER -> c

\* the switch of parseDuration: milliseconds of one unit
UnitMs(u) ==
  CASE u = "s" -> 1000
    [] u = "m" -> 60 * 1000
    [] u = "h" -> 60 * 60 * 1000
    [] u = "d" -> 24 * 60 * 60 * 1000

\* first index >= i of s that holds no digit (Len(s)+1 when there is none):
\* where the greedy \d+ stops
RECURSIVE DigitsEnd(_, _)
DigitsEnd(s, i) ==
  IF i > Len(s) \/ s[i] \notin Digits THEN i ELSE DigitsEnd(s, i + 1)

\* parseInt of the digits s[i..j-1]
RECURSIVE parseInt(_, _, _, _)
parseInt(s, i, j, acc) ==
  IF i >= j THEN acc ELSE parseInt(s, i + 1, j, acc * 10 + DigitVal(s[i]))

\* the while loop over regex.exec with /(\d+)([smhd])/g from index i: the next
\* match is the leftmost run of digits that a unit letter follows; text that
\* is part of no match is skipped
RECURSIVE ScanTokens(_, _, _)
ScanTokens(s, i, totalMs) ==
  IF i > Len(s) THEN totalMs
  ELSE IF s[i] \in Digits
    THEN LET j == DigitsEnd(s, i) IN
         IF j <= Len(s) /\ s[j] \in Units
           THEN ScanTokens(s, j + 1, totalMs + parseInt(s, i, j, 0) * UnitMs(s[j]))
           ELSE ScanTokens(s, j, totalMs)
    ELSE ScanTokens(s, i + 1, totalMs)

Threw      == [ok |-> FALSE, ms |-> 0]
Parsed(ms) == [ok |-> TRUE, ms |-> ms]

\* TimerService.parseDuration: [ok |-> FALSE] is the thrown Error
parseDuration(duration) ==
  IF duration.kind = "number" THEN Parsed(duration.n)
  ELSE IF duration.kind = "object" THEN Parsed(duration.n)
  ELSE LET timeStr == [k \in 1..Len(duration.s) |-> toLowerCase(duration.s[k])]
           totalMs == ScanTokens(timeStr, 1, 0)
       IN IF totalMs = 0 THEN Threw ELSE Parsed(totalMs)

\* ---------------------------------------------------------- NodeScheduler
\* A wait is the part of one schedule() call after its sleep() began:
\*   "sleeping"  the sleep promise is pending, due at `due`
\*   "calling"   the sleep resolved and the callback's promise is awaited
\*   "cleanup"   the sleep rejected (abort) or the callback settled; the
\*               finally block has not run yet
\*   "none"      no such call (the slot is free)
NoWait == [id |-> 0, due |-> 0, st |-> "none"]

\* the scheduler's state as one value, for its methods
Sched(reg, w) == [scheduledTimers |-> reg, waits |-> w]

\* controller.abort(): a pending sleep rejects with AbortError at once; a
\* sleep that has resolved is not affected
Abort(w, c) ==
  IF w[c].st = "sleeping" THEN [w EXCEPT ![c].st = "cleanup"] ELSE w

\* NodeScheduler.cancel
cancel(sc, id) ==
  LET controller == sc.scheduledTimers[id] IN
  IF controller # 0
    THEN Sched([sc.scheduledTimers EXCEPT ![id] = 0], Abort(sc.waits, controller))
    ELSE sc

\* the delay sleep(dueInMs) waits for
SleepDelay(dueInMs) ==
  IF dueInMs < 1 \/ dueInMs > TIMEOUT_MAX THEN 1 ELSE dueInMs

FreeCtl(w) == CHOOSE c \in Ctls : w[c].st = "none" /\ \A d \in 1..(c - 1) : w[d].st # "none"

\* NodeScheduler.schedule up to its first await (the sleep)
schedule(sc, id, dueInMs, t) ==
  LET c1 == cancel(sc, id)
      abortController == FreeCtl(c1.waits)
  IN Sched([c1.scheduledTimers EXCEPT ![id] = abortController],
           [c1.waits EXCEPT ![abortController] =
              [id |-> id, due |-> t + SleepDelay(dueInMs), st |-> "sleeping"]])

\* NodeScheduler.schedule, the finally block: deletes whatever is registered
\* under the id
scheduleFinally(sc, c) ==
  Sched([sc.scheduledTimers EXCEPT ![sc.waits[c].id] = 0],
        [sc.waits EXCEPT ![c] = NoWait])

\* NodeScheduler.shutdown: abort every registered controller, clear the map
shutdown(sc) ==
  Sched([id \in DOMAIN sc.scheduledTimers |-> 0],
        [c \in DOMAIN sc.waits |->
           IF \E id \in DOMAIN sc.scheduledTimers : sc.scheduledTimers[id] = c
             THEN Abort(sc.waits, c)[c]
             ELSE sc.waits[c]])

\* ------------------------------------------------------------ TimerService
\* A task is one call of an async method of TimerService that has not
\* returned: `timer` is its local variable, `pc` the await it is suspended at
\* ("afterGet", "afterPut"), `wait` the scheduler wait that called it (for
\* completeTimer).  "resolved" and "rejected" are a settled promise the caller
\* has not consumed yet (kept for the calls whose result is observed).
\* `request` is createTimer's argument (its duration), NoRequest elsewhere.
NoRequest == [kind |-> "none", n |-> 0, s |-> <<>>]

Idle == [op |-> "idle", id |-> 0, pc |-> "idle", timer |-> Null, wait |-> 0,
         request |-> NoRequest]

Task(op, id, pc, timer, wait) ==
  [op |-> op, id |-> id, pc |-> pc, timer |-> timer, wait |-> wait,
   request |-> NoRequest]

\* the duration specs callers pass to createTimer: those the API schema lets
\* through (a string of at least one character, a positive number, an object
\* with a positive ms); RawDurationInputs adds longer strings and the specs
\* the schema would refuse
DurationInputs ==
  { Num(1), Num(2), Ms(2), Str(<<"0", "s">>) }

RawDurationInputs ==
  DurationInputs \cup { Str(<<"1", "s">>), Str(<<"1", "M", "1", "s">>),
                        Num(0), Num(-1), Ms(0), Ms(-1) }

Active == {s \in Slots : tasks[s].op # "idle"}

\* the slot a new call takes
IsFreeSlot(s) ==
  /\ tasks[s].op = "idle"
  /\ \A r \in 1..(s - 1) : tasks[r].op # "idle"

\* Spec's callers stop calling once the event budget is spent
CanCall == Len(events) + Cardinality(Active) < MaxEvents

HasFreeCtl(w) == \E c \in Ctls : w[c].st = "none"

\* eventBus.emit as the engine sees it: the event is handed over
emit(ev, type, id) == Append(ev, [type |-> type, id |-> id])

\* InMemoryTimerStore.get
get(id) == timers[id]

\* InMemoryTimerStore.put
put(timer, id) == [timers EXCEPT ![id] = timer]

\* the live remaining time of getTimer and pauseTimer
Remaining(timer, t) ==
  LET elapsed == t - timer.startMonotonicMs
  IN Max(0, timer.durationMs - elapsed)

Init ==
  /\ now = 0
  /\ timers = [i \in Ids |-> Null]
  /\ scheduledTimers = [i \in Ids |-> 0]
  /\ waits = [c \in Ctls |-> NoWait]
  /\ tasks = [s \in Slots |-> Idle]
  /\ events = <<>>
  /\ listeners = [type \in EventTypes |-> NoSet]
  /\ immediates = <<>>
  /\ handled = [h \in Handlers |-> <<>>]
  /\ canceledIds = {}
  /\ shutDown = FALSE
  /\ subscribedAtEmit = <<>>

\* a createTimer that stored its record with the status Created
createRecordCreated(durationMs, t) ==
  [status |-> "created",
   durationMs |-> durationMs,
   startMonotonicMs |-> t,
   remainingMs |-> durationMs,
   paused |-> FALSE]

\* the record createTimer builds
createRecord(durationMs, t) ==
  [status |-> RUNNING,
   durationMs |-> durationMs,
   startMonotonicMs |-> t,
   remainingMs |-> durationMs,
   paused |-> FALSE]

\* createTimer up to `await this.store.put(timer)`; a thrown parseDuration
\* rejects the call before anything is built
CreateTimerCall(s, id, duration) ==
  /\ IsFreeSlot(s)
  /\ LET durationMs == parseDuration(duration) IN
     IF ~durationMs.ok
       THEN /\ tasks' = [tasks EXCEPT ![s] =
                          [Task("create", id, "rejected", Null, 0)
                             EXCEPT !.request = duration]]
            /\ UNCHANGED timers
       ELSE LET timer == createRecord(durationMs.ms, now)
            IN /\ timers' = put(timer, id)
               /\ tasks' = [tasks EXCEPT ![s] =
                             [Task("create", id, "afterPut", timer, 0)
                                EXCEPT !.request = duration]]
  /\ UNCHANGED <<now, scheduledTimers, waits, events>>
  /\ UNCHANGED ext

\* createTimer after the put: schedule the completion, emit, return the id
CreateTimerSchedule(s) ==
  /\ tasks[s].op = "create" /\ tasks[s].pc = "afterPut"
  /\ HasFreeCtl(waits)
  /\ LET sc == schedule(Sched(scheduledTimers, waits), tasks[s].id,
                        tasks[s].timer.durationMs, now)
     IN /\ scheduledTimers' = sc.scheduledTimers
        /\ waits' = sc.waits
  /\ events' = emit(events, TIMER_CREATED, tasks[s].id)
  /\ tasks' = [tasks EXCEPT ![s] = Idle]
  /\ UNCHANGED <<now, timers>>
  /\ UNCHANGED ext

\* getTimer up to `await this.store.get(id)`
GetTimerCall(s, id) ==
  /\ IsFreeSlot(s)
  /\ tasks' = [tasks EXCEPT ![s] = Task("get", id, "afterGet", get(id), 0)]
  /\ UNCHANGED <<now, timers, scheduledTimers, waits, events>>
  /\ UNCHANGED ext

\* a getTimer that returned the copy as it was stored
getTimerResultStored(timer, t) == timer

\* what getTimer returns for the copy it read, at time t
getTimerResult(timer, t) ==
  IF timer = Null THEN Null
  ELSE IF timer.status = RUNNING /\ ~timer.paused
    THEN [timer EXCEPT !.remainingMs = Remaining(timer, t)]
    ELSE timer

\* getTimer after the get: recompute on the copy and return it
GetTimerReturn(s) ==
  /\ tasks[s].op = "get" /\ tasks[s].pc = "afterGet"
  /\ tasks' = [tasks EXCEPT ![s].pc = "resolved",
                            ![s].timer = getTimerResult(tasks[s].timer, now)]
  /\ UNCHANGED <<now, timers, scheduledTimers, waits, events>>
  /\ UNCHANGED ext

\* InMemoryTimerStore.list: a copy of every record in the map
list == [i \in {k \in Ids : timers[k] # Null} |-> timers[i]]

\* listTimers: store.list() builds the array as it is called, and the
\* promise resolves to it as it is
ListTimers(s) ==
  /\ IsFreeSlot(s)
  /\ tasks' = [tasks EXCEPT ![s] =
       [op |-> "list", id |-> 0, pc |-> "resolved", timer |-> Null, wait |-> 0,
        request |-> NoRequest, list |-> list]]
  /\ UNCHANGED <<now, timers, scheduledTimers, waits, events>>
  /\ UNCHANGED ext

\* the caller consumes a settled promise
Settle(s) ==
  /\ tasks[s].pc \in {"resolved", "rejected"}
  /\ tasks' = [tasks EXCEPT ![s] = Idle]
  /\ UNCHANGED <<now, timers, scheduledTimers, waits, events>>
  /\ UNCHANGED ext

\* pauseTimer up to `await this.store.get(id)`
PauseTimerCall(s, id) ==
  /\ IsFreeSlot(s)
  /\ tasks' = [tasks EXCEPT ![s] = Task("pause", id, "afterGet", get(id), 0)]
  /\ UNCHANGED <<now, timers, scheduledTimers, waits, events>>
  /\ UNCHANGED ext

\* the early return of pauseTimer
pauseReturns(timer) ==
  timer = Null \/ timer.status # RUNNING \/ timer.paused

\* the record pauseTimer writes
pauseRecord(timer, t) ==
  [timer EXCEPT !.remainingMs = Remaining(timer, t),
                !.paused = TRUE,
                !.status = PAUSED]

\* pauseTimer from the guard to `await this.store.put(timer)`
PauseTimerPut(s) ==
  /\ tasks[s].op = "pause" /\ tasks[s].pc = "afterGet"
  /\ IF pauseReturns(tasks[s].timer)
       THEN /\ tasks' = [tasks EXCEPT ![s] = Idle]
            /\ UNCHANGED timers
       ELSE LET timer == pauseRecord(tasks[s].timer, now)
            IN /\ timers' = put(timer, tasks[s].id)
               /\ tasks' = [tasks EXCEPT ![s].pc = "afterPut", ![s].timer = timer]
  /\ UNCHANGED <<now, scheduledTimers, waits, events>>
  /\ UNCHANGED ext

\* pauseTimer after the put: cancel the wake-up, emit, return
PauseTimerCancel(s) ==
  /\ tasks[s].op = "pause" /\ tasks[s].pc = "afterPut"
  /\ LET sc == cancel(Sched(scheduledTimers, waits), tasks[s].id)
     IN /\ scheduledTimers' = sc.scheduledTimers
        /\ waits' = sc.waits
  /\ events' = emit(events, TIMER_PAUSED, tasks[s].id)
  /\ tasks' = [tasks EXCEPT ![s] = Idle]
  /\ UNCHANGED <<now, timers>>
  /\ UNCHANGED ext

\* resumeTimer up to `await this.store.get(id)`
ResumeTimerCall(s, id) ==
  /\ IsFreeSlot(s)
  /\ tasks' = [tasks EXCEPT ![s] = Task("resume", id, "afterGet", get(id), 0)]
  /\ UNCHANGED <<now, timers, scheduledTimers, waits, events>>
  /\ UNCHANGED ext

\* the early return of resumeTimer
resumeReturns(timer) ==
  timer = Null \/ timer.status # PAUSED

\* a resumeTimer that kept the start time of the run before the pause
resumeRecordKeepsStart(timer, t) ==
  [timer EXCEPT !.durationMs = timer.remainingMs,
                !.paused = FALSE,
                !.status = RUNNING]

\* the record resumeTimer writes
resumeRecord(timer, t) ==
  [timer EXCEPT !.startMonotonicMs = t,
                !.durationMs = timer.remainingMs,
                !.paused = FALSE,
                !.status = RUNNING]

\* resumeTimer from the guard to `await this.store.put(timer)`
ResumeTimerPut(s) ==
  /\ tasks[s].op = "resume" /\ tasks[s].pc = "afterGet"
  /\ IF resumeReturns(tasks[s].timer)
       THEN /\ tasks' = [tasks EXCEPT ![s] = Idle]
            /\ UNCHANGED timers
       ELSE LET timer == resumeRecord(tasks[s].timer, now)
            IN /\ timers' = put(timer, tasks[s].id)
               /\ tasks' = [tasks EXCEPT ![s].pc = "afterPut", ![s].timer = timer]
  /\ UNCHANGED <<now, scheduledTimers, waits, events>>
  /\ UNCHANGED ext

\* resumeTimer after the put: schedule for timer.remainingMs, emit, return
ResumeTimerSchedule(s) ==
  /\ tasks[s].op = "resume" /\ tasks[s].pc = "afterPut"
  /\ HasFreeCtl(waits)
  /\ LET sc == schedule(Sched(scheduledTimers, waits), tasks[s].id,
                        tasks[s].timer.remainingMs, now)
     IN /\ scheduledTimers' = sc.scheduledTimers
        /\ waits' = sc.waits
  /\ events' = emit(events, TIMER_RESUMED, tasks[s].id)
  /\ tasks' = [tasks EXCEPT ![s] = Idle]
  /\ UNCHANGED <<now, timers>>
  /\ UNCHANGED ext

\* cancelTimer up to `await this.store.get(id)`
CancelTimerCall(s, id) ==
  /\ IsFreeSlot(s)
  /\ tasks' = [tasks EXCEPT ![s] = Task("cancel", id, "afterGet", get(id), 0)]
  /\ UNCHANGED <<now, timers, scheduledTimers, waits, events>>
  /\ UNCHANGED ext

\* a cancelTimer that returned early only on a missing or Completed record
cancelReturnsCompletedOnly(timer) ==
  timer = Null \/ timer.status = COMPLETED

\* the early return of cancelTimer
cancelReturns(timer) ==
  timer = Null \/ timer.status = COMPLETED \/ timer.status = CANCELED

\* the record cancelTimer writes
cancelRecord(timer) == [timer EXCEPT !.status = CANCELED]

\* cancelTimer from the guard to `await this.store.put(timer)`
CancelTimerPut(s) ==
  /\ tasks[s].op = "cancel" /\ tasks[s].pc = "afterGet"
  /\ IF cancelReturns(tasks[s].timer)
       THEN /\ tasks' = [tasks EXCEPT ![s] = Idle]
            /\ UNCHANGED timers
       ELSE LET timer == cancelRecord(tasks[s].timer)
            IN /\ timers' = put(timer, tasks[s].id)
               /\ tasks' = [tasks EXCEPT ![s].pc = "afterPut", ![s].timer = timer]
  /\ UNCHANGED <<now, scheduledTimers, waits, events>>
  /\ UNCHANGED ext

\* cancelTimer after the put: cancel the wake-up, emit, return
CancelTimerCancel(s) ==
  /\ tasks[s].op = "cancel" /\ tasks[s].pc = "afterPut"
  /\ LET sc == cancel(Sched(scheduledTimers, waits), tasks[s].id)
     IN /\ scheduledTimers' = sc.scheduledTimers
        /\ waits' = sc.waits
  /\ events' = emit(events, TIMER_CANCELED, tasks[s].id)
  /\ tasks' = [tasks EXCEPT ![s] = Idle]
  /\ UNCHANGED <<now, timers>>
  /\ UNCHANGED ext

\* NodeScheduler.schedule when its sleep resolves: the signal is not aborted,
\* the callback () => this.completeTimer(id) is called and runs up to its
\* `await this.store.get(id)`.  A sleep resolves at its due time or later.
Fire(c, s) ==
  /\ waits[c].st = "sleeping" /\ now >= waits[c].due
  /\ IsFreeSlot(s)
  /\ waits' = [waits EXCEPT ![c].st = "calling"]
  /\ tasks' = [tasks EXCEPT ![s] =
                 Task("complete", waits[c].id, "afterGet", get(waits[c].id), c)]
  /\ UNCHANGED <<now, timers, scheduledTimers, events>>
  /\ UNCHANGED ext

\* the early return of completeTimer
completeReturns(timer) ==
  timer = Null \/ timer.status = COMPLETED

\* the record completeTimer writes
completeRecord(timer) ==
  [timer EXCEPT !.status = COMPLETED, !.remainingMs = 0]

\* completeTimer from the guard to `await this.store.put(timer)`; on the
\* early return the callback's promise settles and the wait goes on to its
\* finally block
CompleteTimerPut(s) ==
  /\ tasks[s].op = "complete" /\ tasks[s].pc = "afterGet"
  /\ IF completeReturns(tasks[s].timer)
       THEN /\ tasks' = [tasks EXCEPT ![s] = Idle]
            /\ waits' = [waits EXCEPT ![tasks[s].wait].st = "cleanup"]
            /\ UNCHANGED timers
       ELSE LET timer == completeRecord(tasks[s].timer)
            IN /\ timers' = put(timer, tasks[s].id)
               /\ tasks' = [tasks EXCEPT ![s].pc = "afterPut", ![s].timer = timer]
               /\ UNCHANGED waits
  /\ UNCHANGED <<now, scheduledTimers, events>>
  /\ UNCHANGED ext

\* completeTimer after the put: emit, return
CompleteTimerEmit(s) ==
  /\ tasks[s].op = "complete" /\ tasks[s].pc = "afterPut"
  /\ events' = emit(events, TIMER_COMPLETED, tasks[s].id)
  /\ waits' = [waits EXCEPT ![tasks[s].wait].st = "cleanup"]
  /\ tasks' = [tasks EXCEPT ![s] = Idle]
  /\ UNCHANGED <<now, timers, scheduledTimers>>
  /\ UNCHANGED ext

\* NodeScheduler.schedule: the catch and finally blocks of one call
ScheduleFinally(c) ==
  /\ waits[c].st = "cleanup"
  /\ LET sc == scheduleFinally(Sched(scheduledTimers, waits), c)
     IN /\ scheduledTimers' = sc.scheduledTimers
        /\ waits' = sc.waits
  /\ UNCHANGED <<now, timers, tasks, events>>
  /\ UNCHANGED ext

\* the monotonic clock advances
Tick ==
  /\ now < MaxTime
  /\ now' = now + 1
  /\ UNCHANGED <<timers, scheduledTimers, waits, tasks, events>>
  /\ UNCHANGED ext

\* ------------------------------------------------------------ environments
\* Spec: the engine against the TimerStore interface.  A store call settles
\* at any later turn, so calls overlap: suspended continuations, sleeps that
\* are due and new calls are taken in any order.  Callers pass what the API
\* schema lets through.
Next ==
  \/ \E s \in Slots, id \in Ids, d \in DurationInputs :
       CanCall /\ CreateTimerCall(s, id, d)
  \/ \E s \in Slots : CreateTimerSchedule(s)
  \/ \E s \in Slots : Settle(s)
  \/ \E s \in Slots, id \in Ids : CanCall /\ PauseTimerCall(s, id)
  \/ \E s \in Slots : PauseTimerPut(s)
  \/ \E s \in Slots : PauseTimerCancel(s)
  \/ \E s \in Slots, id \in Ids : CanCall /\ ResumeTimerCall(s, id)
  \/ \E s \in Slots : ResumeTimerPut(s)
  \/ \E s \in Slots : ResumeTimerSchedule(s)
  \/ \E s \in Slots, id \in Ids : CanCall /\ CancelTimerCall(s, id)
  \/ \E s \in Slots : CancelTimerPut(s)
  \/ \E s \in Slots : CancelTimerCancel(s)
  \/ \E c \in Ctls, s \in Slots : Fire(c, s)
  \/ \E s \in Slots : CompleteTimerPut(s)
  \/ \E s \in Slots : CompleteTimerEmit(s)
  \/ \E c \in Ctls : ScheduleFinally(c)
  \/ Tick

Spec == Init /\ [][Next]_vars

\* SerialSpec: the engine with InMemoryTimerStore on Node's event loop.  The
\* continuation of every await is a microtask, and the microtask queue is
\* drained before the next request or timer is taken: a call or a firing
\* begins only when nothing is suspended.  Deep and narrow: few ids, many
\* operations on each.
Quiescent ==
  /\ Active = {}
  /\ \A c \in Ctls : waits[c].st \in {"none", "sleeping"}

SerialCanCall == Quiescent /\ Len(events) < MaxSerialEvents

SerialNext ==
  \/ \E s \in Slots, id \in SerialIds, d \in DurationInputs :
       SerialCanCall /\ CreateTimerCall(s, id, d)
  \/ \E s \in Slots : CreateTimerSchedule(s)
  \/ \E s \in Slots : Settle(s)
  \/ \E s \in Slots, id \in SerialIds : SerialCanCall /\ PauseTimerCall(s, id)
  \/ \E s \in Slots : PauseTimerPut(s)
  \/ \E s \in Slots : PauseTimerCancel(s)
  \/ \E s \in Slots, id \in SerialIds : SerialCanCall /\ ResumeTimerCall(s, id)
  \/ \E s \in Slots : ResumeTimerPut(s)
  \/ \E s \in Slots : ResumeTimerSchedule(s)
  \/ \E s \in Slots, id \in SerialIds : SerialCanCall /\ CancelTimerCall(s, id)
  \/ \E s \in Slots : CancelTimerPut(s)
  \/ \E s \in Slots : CancelTimerCancel(s)
  \/ \E c \in Ctls, s \in Slots : Quiescent /\ Fire(c, s)
  \/ \E s \in Slots : CompleteTimerPut(s)
  \/ \E s \in Slots : CompleteTimerEmit(s)
  \/ \E c \in Ctls : ScheduleFinally(c)
  \/ Tick

SerialSpec == Init /\ [][SerialNext]_vars

\* RawSpec: SerialSpec's event loop with callers that reach createTimer
\* without the API schema (TimerController passes the request body as it
\* is), and with getTimer and listTimers
RawCanCall == Quiescent /\ Len(events) < MaxRawEvents

RawNext ==
  \/ \E s \in Slots, id \in Ids, d \in RawDurationInputs :
       RawCanCall /\ CreateTimerCall(s, id, d)
  \/ \E s \in Slots : CreateTimerSchedule(s)
  \/ \E s \in Slots, id \in Ids : RawCanCall /\ GetTimerCall(s, id)
  \/ \E s \in Slots : GetTimerReturn(s)
  \/ \E s \in Slots : RawCanCall /\ ListTimers(s)
  \/ \E s \in Slots : Settle(s)
  \/ \E s \in Slots, id \in Ids : RawCanCall /\ PauseTimerCall(s, id)
  \/ \E s \in Slots : PauseTimerPut(s)
  \/ \E s \in Slots : PauseTimerCancel(s)
  \/ \E s \in Slots, id \in Ids : RawCanCall /\ ResumeTimerCall(s, id)
  \/ \E s \in Slots : ResumeTimerPut(s)
  \/ \E s \in Slots : ResumeTimerSchedule(s)
  \/ \E s \in Slots, id \in Ids : RawCanCall /\ CancelTimerCall(s, id)
  \/ \E s \in Slots : CancelTimerPut(s)
  \/ \E s \in Slots : CancelTimerCancel(s)
  \/ \E c \in Ctls, s \in Slots : Quiescent /\ Fire(c, s)
  \/ \E s \in Slots : CompleteTimerPut(s)
  \/ \E s \in Slots : CompleteTimerEmit(s)
  \/ \E c \in Ctls : ScheduleFinally(c)
  \/ Tick

RawSpec == Init /\ [][RawNext]_vars

\* SchedSpec: the scheduler called directly, as its interface allows: any
\* sequence of schedule(id, dueInMs, callback), cancel(id) and one shutdown().
\* The callback is the engine's () => this.completeTimer(id).  A call may
\* come in the same turn as the one before it or later, so the cleanup of an
\* aborted wait (a microtask) runs between any two calls or after both; a
\* sleep resolves only once the microtasks are drained.
SchedDelays == {1, 2}

SchedulerSchedule(id, dueInMs) ==
  /\ ~shutDown
  /\ HasFreeCtl(waits)
  /\ LET sc == schedule(Sched(scheduledTimers, waits), id, dueInMs, now)
     IN /\ scheduledTimers' = sc.scheduledTimers
        /\ waits' = sc.waits
  /\ canceledIds' = canceledIds \ {id}
  /\ UNCHANGED <<now, timers, tasks, events, listeners, immediates, handled, shutDown,
                 subscribedAtEmit>>

SchedulerCancel(id) ==
  /\ ~shutDown
  /\ LET sc == cancel(Sched(scheduledTimers, waits), id)
     IN /\ scheduledTimers' = sc.scheduledTimers
        /\ waits' = sc.waits
  /\ canceledIds' = canceledIds \cup {id}
  /\ UNCHANGED <<now, timers, tasks, events, listeners, immediates, handled, shutDown,
                 subscribedAtEmit>>

SchedulerShutdown ==
  /\ ~shutDown
  /\ LET sc == shutdown(Sched(scheduledTimers, waits))
     IN /\ scheduledTimers' = sc.scheduledTimers
        /\ waits' = sc.waits
  /\ shutDown' = TRUE
  /\ UNCHANGED <<now, timers, tasks, events, listeners, immediates, handled, canceledIds,
                 subscribedAtEmit>>

SchedNext ==
  \/ \E id \in Ids, dueInMs \in SchedDelays : SchedulerSchedule(id, dueInMs)
  \/ \E id \in Ids : SchedulerCancel(id)
  \/ SchedulerShutdown
  \/ \E c \in Ctls, s \in Slots : Quiescent /\ Fire(c, s)
  \/ \E s \in Slots : CompleteTimerPut(s)
  \/ \E c \in Ctls : ScheduleFinally(c)
  \/ Tick

SchedSpec == Init /\ [][SchedNext]_vars

\* FaultSpec: SerialSpec's event loop with a TimerStore whose get and put can
\* fail (the interface returns promises; a store other than the in-memory one
\* can reject them).  A put that fails has written nothing.
\* The call that awaits the rejected promise is at pc "storeFailed" until its
\* continuation runs.

\* createTimer up to `await this.store.put(timer)`, the put failing
CreateTimerPutFails(s, id, duration) ==
  /\ IsFreeSlot(s)
  /\ parseDuration(duration).ok
  /\ LET timer == createRecord(parseDuration(duration).ms, now)
     IN tasks' = [tasks EXCEPT ![s] =
                    [Task("create", id, "storeFailed", timer, 0)
                       EXCEPT !.request = duration]]
  /\ UNCHANGED <<now, timers, scheduledTimers, waits, events>>
  /\ UNCHANGED ext

\* `await this.store.get(id)` of any method, the get failing
StoreGetFails(s) ==
  /\ tasks[s].pc = "afterGet"
  /\ tasks' = [tasks EXCEPT ![s].pc = "storeFailed"]
  /\ UNCHANGED <<now, timers, scheduledTimers, waits, events>>
  /\ UNCHANGED ext

\* the method passes its guard and goes on to write
Writes(task) ==
  CASE task.op = "pause"    -> ~pauseReturns(task.timer)
    [] task.op = "resume"   -> ~resumeReturns(task.timer)
    [] task.op = "cancel"   -> ~cancelReturns(task.timer)
    [] task.op = "complete" -> ~completeReturns(task.timer)
    [] OTHER -> FALSE

\* the record it writes
Written(task, t) ==
  CASE task.op = "pause"    -> pauseRecord(task.timer, t)
    [] task.op = "resume"   -> resumeRecord(task.timer, t)
    [] task.op = "cancel"   -> cancelRecord(task.timer)
    [] task.op = "complete" -> completeRecord(task.timer)

\* from the guard to `await this.store.put(timer)` of pauseTimer, resumeTimer,
\* cancelTimer or completeTimer, the put failing
StorePutFails(s) ==
  /\ tasks[s].pc = "afterGet"
  /\ Writes(tasks[s])
  /\ LET timer == Written(tasks[s], now)
     IN tasks' = [tasks EXCEPT ![s].pc = "storeFailed", ![s].timer = timer]
  /\ UNCHANGED <<now, timers, scheduledTimers, waits, events>>
  /\ UNCHANGED ext

\* a method that caught the failure of its await and went on
throwsSwallowed(task) == [task EXCEPT !.pc = "afterPut"]

\* a catch block that threw the error again
catchErrorRethrows(w, c) == [w EXCEPT ![c].st = "escaped"]

\* an await that throws inside an async method with no try block: the method
\* ends there and its promise rejects
throws(task) == [task EXCEPT !.pc = "rejected"]

\* the catch block of NodeScheduler.schedule: the error is logged (unless it
\* is an AbortError) and nothing is thrown again
catchError(w, c) == [w EXCEPT ![c].st = "cleanup"]

\* the continuation of the failed await: the method rejects; for
\* completeTimer the rejection is the callback's, awaited by schedule
StoreFailure(s) ==
  /\ tasks[s].pc = "storeFailed"
  /\ IF tasks[s].op = "complete"
       THEN /\ throws(tasks[s]).pc = "rejected"
            /\ tasks' = [tasks EXCEPT ![s] = Idle]
            /\ waits' = [waits EXCEPT ![tasks[s].wait].st = "threw"]
       ELSE /\ tasks' = [tasks EXCEPT ![s] = throws(tasks[s])]
            /\ UNCHANGED waits
  /\ UNCHANGED <<now, timers, scheduledTimers, events>>
  /\ UNCHANGED ext

\* NodeScheduler.schedule: `await callback()` threw, the catch block runs
ScheduleCatch(c) ==
  /\ waits[c].st = "threw"
  /\ waits' = catchError(waits, c)
  /\ UNCHANGED <<now, timers, scheduledTimers, tasks, events>>
  /\ UNCHANGED ext

FaultCanCall == Quiescent /\ Len(events) < MaxFaultEvents

\* the durations FaultSpec's callers pass
FaultDurations == { Num(1), Ms(2) }

FaultNext ==
  \/ \E s \in Slots, id \in Ids, d \in FaultDurations :
       FaultCanCall /\ CreateTimerCall(s, id, d)
  \/ \E s \in Slots, id \in Ids, d \in FaultDurations :
       FaultCanCall /\ CreateTimerPutFails(s, id, d)
  \/ \E s \in Slots : CreateTimerSchedule(s)
  \/ \E s \in Slots : Settle(s)
  \/ \E s \in Slots, id \in Ids : FaultCanCall /\ PauseTimerCall(s, id)
  \/ \E s \in Slots : PauseTimerPut(s)
  \/ \E s \in Slots : PauseTimerCancel(s)
  \/ \E s \in Slots, id \in Ids : FaultCanCall /\ ResumeTimerCall(s, id)
  \/ \E s \in Slots : ResumeTimerPut(s)
  \/ \E s \in Slots : ResumeTimerSchedule(s)
  \/ \E s \in Slots, id \in Ids : FaultCanCall /\ CancelTimerCall(s, id)
  \/ \E s \in Slots : CancelTimerPut(s)
  \/ \E s \in Slots : CancelTimerCancel(s)
  \/ \E c \in Ctls, s \in Slots : Quiescent /\ Fire(c, s)
  \/ \E s \in Slots : CompleteTimerPut(s)
  \/ \E s \in Slots : CompleteTimerEmit(s)
  \/ \E s \in Slots : StoreGetFails(s)
  \/ \E s \in Slots : StorePutFails(s)
  \/ \E s \in Slots : StoreFailure(s)
  \/ \E c \in Ctls : ScheduleCatch(c)
  \/ \E c \in Ctls : ScheduleFinally(c)
  \/ Tick

FaultSpec == Init /\ [][FaultNext]_vars

\* BusSpec: the event bus called directly: handlers subscribe and
\* unsubscribe, events are handed to emit, and the deliveries emit deferred
\* with setImmediate run one by one.  A queued delivery is the position in
\* `events` of the event object it carries; the Set of handlers it will walk
\* is the one of its type, as it is when the delivery runs (emit holds the
\* Set itself, not a copy).
BusTypes == {TIMER_CREATED, TIMER_COMPLETED}

\* the handlers that throw whenever they are invoked
ThrowingHandlers == {1}

Range(seq) == {seq[k] : k \in 1..Len(seq)}

\* InMemoryEventBus.subscribe: create the Set if there is none, add
subscribe(ls, type, handler) ==
  LET set == IF ls[type].exists THEN ls[type].handlers ELSE <<>>
  IN [ls EXCEPT ![type] =
        [exists |-> TRUE,
         handlers |-> IF handler \in Range(set) THEN set ELSE Append(set, handler)]]

\* InMemoryEventBus.unsubscribe: delete from the Set if there is one
unsubscribe(ls, type, handler) ==
  IF ls[type].exists
    THEN [ls EXCEPT ![type].handlers = SelectSeq(@, LAMBDA h : h # handler)]
    ELSE ls

BusSubscribe(type, handler) ==
  /\ listeners' = subscribe(listeners, type, handler)
  /\ UNCHANGED <<now, timers, scheduledTimers, waits, tasks, events,
                 immediates, handled, canceledIds, shutDown, subscribedAtEmit>>

BusUnsubscribe(type, handler) ==
  /\ listeners' = unsubscribe(listeners, type, handler)
  /\ UNCHANGED <<now, timers, scheduledTimers, waits, tasks, events,
                 immediates, handled, canceledIds, shutDown, subscribedAtEmit>>

\* InMemoryEventBus.emit: with a Set for the type, defer the delivery; with
\* none, do nothing
BusEmit(type, id) ==
  /\ Len(events) < MaxEmitted
  /\ events' = emit(events, type, id)
  /\ immediates' = IF listeners[type].exists
                     THEN Append(immediates, Len(events) + 1)
                     ELSE immediates
  /\ UNCHANGED <<now, timers, scheduledTimers, waits, tasks,
                 listeners, handled, canceledIds, shutDown, subscribedAtEmit>>

\* a queue that ran the delivery deferred last
nextImmediateLast(queue) == Len(queue)

\* a forEach with no try/catch around the call: a handler that throws ends it
RECURSIVE forEachHandlerUntilThrow(_, _)
forEachHandlerUntilThrow(handlers, k) ==
  IF k > Len(handlers) THEN {}
  ELSE IF handlers[k] \in ThrowingHandlers THEN {handlers[k]}
  ELSE {handlers[k]} \cup forEachHandlerUntilThrow(handlers, k + 1)

\* the setImmediate queue is first in, first out: the position of the
\* delivery that runs next
nextImmediate(queue) == 1

\* handlers.forEach with the try/catch around each call: the handlers that
\* are invoked, of the Set's handlers in insertion order
RECURSIVE forEachHandler(_, _)
forEachHandler(handlers, k) ==
  IF k > Len(handlers) THEN {}
  ELSE {handlers[k]} \cup forEachHandler(handlers, k + 1)

\* the setImmediate callback of one emit runs
Deliver ==
  /\ immediates # <<>>
  /\ LET at == nextImmediate(immediates)
         event == immediates[at]
         invoked == forEachHandler(listeners[events[event].type].handlers, 1)
     IN /\ handled' = [h \in Handlers |->
                         IF h \in invoked THEN Append(handled[h], event)
                                          ELSE handled[h]]
        /\ immediates' = [k \in 1..(Len(immediates) - 1) |->
                            IF k < at THEN immediates[k] ELSE immediates[k + 1]]
  /\ UNCHANGED <<now, timers, scheduledTimers, waits, tasks, events,
                 listeners, canceledIds, shutDown, subscribedAtEmit>>

BusNext ==
  \/ \E type \in BusTypes, h \in Handlers : BusSubscribe(type, h)
  \/ \E type \in BusTypes, h \in Handlers : BusUnsubscribe(type, h)
  \/ \E type \in BusTypes, id \in Ids : BusEmit(type, id)
  \/ Deliver

BusSpec == Init /\ [][BusNext]_vars

\* ObservedBusSpec: BusSpec with fewer events, and with a record of the
\* handlers each emit call found subscribed to the event's type
BusEmitObserved(type, id) ==
  /\ Len(events) < MaxObserved
  /\ events' = emit(events, type, id)
  /\ immediates' = IF listeners[type].exists
                     THEN Append(immediates, Len(events) + 1)
                     ELSE immediates
  /\ subscribedAtEmit' = Append(subscribedAtEmit, Range(listeners[type].handlers))
  /\ UNCHANGED <<now, timers, scheduledTimers, waits, tasks,
                 listeners, handled, canceledIds, shutDown>>

ObservedBusNext ==
  \/ \E type \in BusTypes, h \in Handlers : BusSubscribe(type, h)
  \/ \E type \in BusTypes, h \in Handlers : BusUnsubscribe(type, h)
  \/ \E type \in BusTypes, id \in Ids : BusEmitObserved(type, id)
  \/ Deliver

ObservedBusSpec == Init /\ [][ObservedBusNext]_vars

\* LiveSpec: Spec's overlapping calls on the ids of SerialSpec, with the
\* scheduling Node gives: the clock advances, a sleep that is due resolves
\* once a turn is free for it, and every suspended continuation is resumed.
\* Callers stop for good once MaxLiveEvents events are out.
LiveCanCall == Len(events) + Cardinality(Active) < MaxLiveEvents

LiveNext ==
  \/ \E s \in Slots, id \in SerialIds, d \in DurationInputs :
       LiveCanCall /\ CreateTimerCall(s, id, d)
  \/ \E s \in Slots : CreateTimerSchedule(s)
  \/ \E s \in Slots : Settle(s)
  \/ \E s \in Slots, id \in SerialIds : LiveCanCall /\ PauseTimerCall(s, id)
  \/ \E s \in Slots : PauseTimerPut(s)
  \/ \E s \in Slots : PauseTimerCancel(s)
  \/ \E s \in Slots, id \in SerialIds : LiveCanCall /\ ResumeTimerCall(s, id)
  \/ \E s \in Slots : ResumeTimerPut(s)
  \/ \E s \in Slots : ResumeTimerSchedule(s)
  \/ \E s \in Slots, id \in SerialIds : LiveCanCall /\ CancelTimerCall(s, id)
  \/ \E s \in Slots : CancelTimerPut(s)
  \/ \E s \in Slots : CancelTimerCancel(s)
  \/ \E c \in Ctls, s \in Slots : Fire(c, s)
  \/ \E s \in Slots : CompleteTimerPut(s)
  \/ \E s \in Slots : CompleteTimerEmit(s)
  \/ \E c \in Ctls : ScheduleFinally(c)
  \/ Tick

LiveFairness ==
  /\ WF_vars(Tick)
  /\ WF_vars(\E c \in Ctls, s \in Slots : Fire(c, s))
  /\ WF_vars(\E c \in Ctls : ScheduleFinally(c))
  /\ WF_vars(\E s \in Slots : Settle(s))
  /\ WF_vars(\E s \in Slots : CreateTimerSchedule(s))
  /\ WF_vars(\E s \in Slots : PauseTimerPut(s))
  /\ WF_vars(\E s \in Slots : PauseTimerCancel(s))
  /\ WF_vars(\E s \in Slots : ResumeTimerPut(s))
  /\ WF_vars(\E s \in Slots : ResumeTimerSchedule(s))
  /\ WF_vars(\E s \in Slots : CancelTimerPut(s))
  /\ WF_vars(\E s \in Slots : CancelTimerCancel(s))
  /\ WF_vars(\E s \in Slots : CompleteTimerPut(s))
  /\ WF_vars(\E s \in Slots : CompleteTimerEmit(s))

LiveSpec == Init /\ [][LiveNext]_vars /\ LiveFairness

\* ParseSpec: createTimer called with every duration string of at most MaxLen
\* characters over ParseAlphabet, and with the longer strings of
\* ParseExamples, one call at a time on a fresh engine
ParseAlphabet == {"0", "2", "h", "M", "x"}

ParseExamples ==
  { <<"2", "h", "3", "0", "m">>, <<"1", "d">>, <<"4", "5", "s">>,
    <<"1", "0", "M">>, <<"1", ".", "5", "h">> }

DurationStrings ==
  UNION {[1..n -> ParseAlphabet] : n \in 0..MaxLen} \cup ParseExamples

ParseCanCall == Quiescent /\ events = <<>>

ParseNext ==
  \/ \E s \in Slots, id \in SerialIds, str \in DurationStrings :
       ParseCanCall /\ CreateTimerCall(s, id, Str(str))
  \/ \E s \in Slots : CreateTimerSchedule(s)
  \/ \E s \in Slots : Settle(s)

ParseSpec == Init /\ [][ParseNext]_vars

\* ------------------------------------------------------- reading a behaviour
\* how many events of one type were emitted for id
Count(type, id) ==
  Cardinality({k \in 1..Len(events) : events[k] = [type |-> type, id |-> id]})

\* the step is slot s going from `from` to `to` in method op
Stepped(s, op, from, to) ==
  /\ tasks[s].op = op /\ tasks[s].pc = from
  /\ tasks'[s].pc = to
  /\ (to = "idle" \/ tasks'[s].op = op)

\* the step is a call of method op (the code up to its first await)
Called(s, op) == tasks[s].op = "idle" /\ tasks'[s].op = op

\* the step is a createTimer call that writes id's record
CreatesId(id) == \E s \in Slots : Called(s, "create") /\ tasks'[s].id = id

\* some call of one of the methods ops on id has not returned
InProgress(ops, id) == \E s \in Slots : tasks[s].op \in ops /\ tasks[s].id = id

\* --------------------------------------------------------------------- C1
\* C1: the firing callback changes nothing unless the record it fetched is
\* Running: on a missing, Paused, Canceled or Completed record it returns
\* with the store and the events as they were; on a Running record it writes
\* status Completed with remainingMs 0.
C1_FiringGuard ==
  [][\A s \in Slots :
       (tasks[s].op = "complete" /\ tasks[s].pc = "afterGet" /\ tasks'[s] # tasks[s])
         => IF tasks[s].timer.status = RUNNING
              THEN /\ timers'[tasks[s].id].status = COMPLETED
                   /\ timers'[tasks[s].id].remainingMs = 0
              ELSE /\ tasks'[s] = Idle
                   /\ UNCHANGED <<timers, events>>]_vars

\* --------------------------------------------------------------------- C2
\* C2: an operation on id that starts once the stored status is Completed
\* or Canceled (pauseTimer, resumeTimer, cancelTimer or a firing callback:
\* each starts by fetching the record) changes no field of the stored record.
C2_Terminal ==
  [][\A s \in Slots :
       ( /\ tasks[s].op \in {"pause", "resume", "cancel", "complete"}
         /\ tasks[s].pc = "afterGet"
         /\ tasks[s].timer.status \in {COMPLETED, CANCELED}
         /\ tasks'[s] # tasks[s] )
         => timers' = timers]_vars

\* --------------------------------------------------------------------- C3
\* C3: a timer completes once: an id that createTimer returned once has at
\* most one `completed` event, however the firing callbacks overlap.
C3_CompletedOnce ==
  \A id \in Ids :
    Count(TIMER_CREATED, id) <= 1 => Count(TIMER_COMPLETED, id) <= 1

\* --------------------------------------------------------------------- C4
\* cancelTimer(id) has returned for a timer that was Running: its `canceled`
\* event is out, the timer was never paused, and no call on the id is open
CancelReturnedRunning(id) ==
  /\ Count(TIMER_CREATED, id) = 1
  /\ Count(TIMER_CANCELED, id) = 1
  /\ Count(TIMER_PAUSED, id) = 0
  /\ ~InProgress({"create", "pause", "resume", "cancel"}, id)

\* C4: after cancelTimer(id) has returned for a Running timer, no step emits
\* a `completed` event for id and the stored status is and stays Canceled.
C4_CanceledStaysCanceled ==
  [][\A id \in Ids :
       (CancelReturnedRunning(id) /\ ~CreatesId(id))
         => /\ timers'[id].status = CANCELED
            /\ Count(TIMER_COMPLETED, id)' = Count(TIMER_COMPLETED, id)]_vars

\* --------------------------------------------------------------------- C5
\* the record a call fetched makes it a no-op by the claim's conditions
NoOpCase(task) ==
  \/ task.timer = Null
  \/ task.op = "pause"  /\ task.timer.status # RUNNING
  \/ task.op = "resume" /\ task.timer.status # PAUSED
  \/ task.op = "cancel" /\ task.timer.status \in {COMPLETED, CANCELED}

\* C5: pauseTimer on a record that is not Running, resumeTimer on one that is
\* not Paused, cancelTimer on a Completed or Canceled one, and each of them on
\* an absent id, return without error and change neither the store, nor the
\* scheduler's registrations and waits, nor the events: the call's fetch
\* changes nothing, and its next step is the return.
C5_GuardedNoOps ==
  [][\A s \in Slots :
       /\ (\E op \in {"pause", "resume", "cancel"} : Called(s, op))
            => UNCHANGED <<timers, scheduledTimers, waits, events>>
       /\ ( /\ tasks[s].op \in {"pause", "resume", "cancel"}
            /\ tasks[s].pc = "afterGet"
            /\ NoOpCase(tasks[s])
            /\ tasks'[s] # tasks[s] )
            => /\ tasks'[s] = Idle
               /\ UNCHANGED <<timers, scheduledTimers, waits, events>>]_vars

\* a cancelTimer has fetched the Canceled record of a timer whose `canceled`
\* event is out, and a pauseTimer has fetched a record that is not Running
C5_Witness ==
  /\ \E s \in Slots :
       /\ tasks[s].op = "cancel" /\ tasks[s].pc = "afterGet"
       /\ tasks[s].timer.status = CANCELED
       /\ Count(TIMER_CANCELED, tasks[s].id) = 1
  /\ \E s \in Slots :
       /\ tasks[s].op = "pause" /\ tasks[s].pc = "afterGet"
       /\ tasks[s].timer.status = CANCELED

\* --------------------------------------------------------------------- C6
\* the events emitted for id, in order
Trace(id) == SelectSeq(events, LAMBDA e : e.id = id)

\* from index i on: `paused` and `resumed` alternate, `expect` first, and a
\* `completed` or `canceled` is the last event
RECURSIVE Alternates(_, _, _)
Alternates(tr, i, expect) ==
  IF i > Len(tr) THEN TRUE
  ELSE IF tr[i].type \in {TIMER_COMPLETED, TIMER_CANCELED} THEN i = Len(tr)
  ELSE /\ tr[i].type = expect
       /\ Alternates(tr, i + 1,
                     IF expect = TIMER_PAUSED THEN TIMER_RESUMED ELSE TIMER_PAUSED)

LegalTrace(tr) ==
  tr # <<>> => tr[1].type = TIMER_CREATED /\ Alternates(tr, 2, TIMER_PAUSED)

\* callers learn an id from createTimer's return: id was returned once, and
\* nothing was emitted for it before its `created`
KnownOnce(id) ==
  /\ Count(TIMER_CREATED, id) <= 1
  /\ Trace(id) # <<>> => Trace(id)[1].type = TIMER_CREATED

\* C6: under any interleaving the events of one timer are a legal lifecycle:
\* `created`, then `paused` and `resumed` in strict alternation, then at most
\* one `completed` or `canceled`; two overlapping pauseTimer calls emit one
\* `paused`.
C6_LegalLifecycle ==
  \A id \in Ids : KnownOnce(id) => LegalTrace(Trace(id))

\* --------------------------------------------------------------------- C7
\* a valid pauseTimer(id) has returned and no resumeTimer or cancelTimer on
\* id has been called since (first pause of a timer created once)
PausedQuiet(id) ==
  /\ Count(TIMER_CREATED, id) = 1
  /\ Count(TIMER_PAUSED, id) = 1
  /\ Count(TIMER_RESUMED, id) = 0
  /\ Count(TIMER_CANCELED, id) = 0
  /\ ~InProgress({"create", "pause", "resume", "cancel"}, id)

\* C7: between a valid pauseTimer and the next resumeTimer or cancelTimer,
\* whatever happens (time advancing, wake-ups firing) the stored status is
\* Paused, the stored remainingMs and the one getTimer returns keep the value
\* snapshotted at the pause, and no `completed` event is emitted.
C7_PausedIsFrozen ==
  [][\A id \in Ids :
       (PausedQuiet(id) /\ ~CreatesId(id))
         => /\ timers[id].status = PAUSED
            /\ timers'[id].status = PAUSED
            /\ timers'[id].remainingMs = timers[id].remainingMs
            /\ getTimerResult(timers'[id], now').remainingMs = timers[id].remainingMs
            /\ Count(TIMER_COMPLETED, id)' = Count(TIMER_COMPLETED, id)]_vars

\* --------------------------------------------------------------------- C8
\* the delay the claim expects for a snapshot (exact), and the one the
\* amended claim expects
ExactDelay(snapshot) == snapshot
MinOneDelay(snapshot) == IF snapshot = 0 THEN 1 ELSE snapshot

\* resumeTimer's two steps, for the delay function `delay`: the write turns
\* the Paused record with snapshot remainingMs into a Running one with
\* durationMs = snapshot and startMonotonicMs = now, for which getTimer at
\* that instant returns the snapshot; the schedule step registers for the id
\* a wake-up due delay(snapshot) from now.
ResumePreserves(delay(_)) ==
  \A s \in Slots :
    LET id == tasks[s].id IN
    /\ Stepped(s, "resume", "afterGet", "afterPut")
         => LET snapshot == timers[id].remainingMs IN
            /\ timers[id].status = PAUSED
            /\ timers'[id].status = RUNNING
            /\ timers'[id].durationMs = snapshot
            /\ timers'[id].startMonotonicMs = now
            /\ getTimerResult(timers'[id], now').remainingMs = snapshot
    /\ Stepped(s, "resume", "afterPut", "idle")
         => LET snapshot == tasks[s].timer.durationMs
                c == scheduledTimers'[id]
            IN /\ c # 0
               /\ waits[c].st = "none"
               /\ waits'[c] = [id |-> id, due |-> now + delay(snapshot), st |-> "sleeping"]

ParsedMs(request) == parseDuration(request).ms

Total(request) ==
  IF request.kind = "string"
    THEN ScanTokens([k \in 1..Len(request.s) |-> toLowerCase(request.s[k])], 1, 0)
    ELSE request.n

\* C10: createTimer with a duration spec whose total is not positive, of any
\* shape, fails with the invalid-duration error, and writes no record,
\* registers no wake-up and emits no event.
C10_RejectsNonPositive ==
  [][\A s \in Slots :
       (Called(s, "create") /\ Total(tasks'[s].request) <= 0)
         => /\ tasks'[s].pc = "rejected"
            /\ UNCHANGED <<timers, scheduledTimers, waits, events>>]_vars

\* -------------------------------------------------------------------- C11
\* the reference parser: milliseconds of a unit letter
RefUnitMs(u) ==
  CASE u \in {"s", "S"} -> 1000
    [] u \in {"m", "M"} -> 60000
    [] u \in {"h", "H"} -> 3600000
    [] u \in {"d", "D"} -> 86400000

RefUnits == {"s", "S", "m", "M", "h", "H", "d", "D"}

\* the sum of the tokens when s[i..] is a concatenation of <integer><unit>
\* tokens and nothing else; -1 when it is not
RECURSIVE RefSum(_, _, _)
RefSum(s, i, total) ==
  IF i > Len(s) THEN total
  ELSE IF s[i] \notin Digits THEN -1
  ELSE LET j == DigitsEnd(s, i) IN
       IF j <= Len(s) /\ s[j] \in RefUnits
         THEN RefSum(s, j + 1, total + parseInt(s, i, j, 0) * RefUnitMs(s[j]))
         ELSE -1

\* the reference parser: the total, or a rejection
Reference(s) ==
  LET total == RefSum(s, 1, 0)
  IN IF total > 0 THEN Parsed(total) ELSE Threw

\* C11: for every duration string, createTimer takes the duration the
\* reference parser gives: the sum of its tokens when the whole string is
\* <integer><unit> tokens with a positive total, and a rejection for any
\* other string, also one with characters that belong to no token.
C11_ParseAgrees ==
  [][\A s \in Slots :
       (Called(s, "create") /\ tasks'[s].request.kind = "string")
         => LET ref == Reference(tasks'[s].request.s)
            IN IF ref.ok
                 THEN /\ tasks'[s].pc = "afterPut"
                      /\ tasks'[s].timer.durationMs = ref.ms
                 ELSE tasks'[s].pc = "rejected"]_vars

\* -------------------------------------------------------------------- C12
\* C12: listTimers returns every record of the store, and for each Running
\* one (of a positive duration) the returned remainingMs is the live value
\* max(0, durationMs - (now - startMonotonicMs)), the one getTimer returns at
\* that instant.
C12_ListIsLive ==
  [][\A s \in Slots :
       Called(s, "list")
         => LET result == tasks'[s].list IN
            /\ DOMAIN result = {i \in Ids : timers[i] # Null}
            /\ \A i \in DOMAIN result :
                 (timers[i].status = RUNNING /\ timers[i].durationMs > 0)
                   => /\ result[i].remainingMs =
                           Max(0, timers[i].durationMs - (now - timers[i].startMonotonicMs))
                      /\ result[i].remainingMs = getTimerResult(timers[i], now).remainingMs]_vars

\* -------------------------------------------------------------------- C13
\* C13: getTimer is read-only: neither its fetch nor its return changes the
\* store, the scheduler or the events; for a Running record it returns
\* remainingMs = max(0, durationMs - (now - startMonotonicMs)), for any other
\* status the stored remainingMs, and null for an absent id.
C13_GetIsReadOnly ==
  [][\A s \in Slots :
       /\ Called(s, "get") => UNCHANGED <<timers, scheduledTimers, waits, events>>
       /\ Stepped(s, "get", "afterGet", "resolved")
            => LET fetched == tasks[s].timer
                   returned == tasks'[s].timer
               IN /\ UNCHANGED <<timers, scheduledTimers, waits, events>>
                  /\ IF fetched = Null THEN returned = Null
                     ELSE IF fetched.status = RUNNING
                       THEN returned =
                              [fetched EXCEPT !.remainingMs =
                                 Max(0, fetched.durationMs - (now - fetched.startMonotonicMs))]
                       ELSE returned = fetched]_vars

\* a getTimer has returned, for a Running timer, a remainingMs below the one
\* stored, which is still the full duration
C13_Witness ==
  \E s \in Slots :
    /\ tasks[s].op = "get" /\ tasks[s].pc = "resolved"
    /\ tasks[s].timer.status = RUNNING
    /\ timers[tasks[s].id].status = RUNNING
    /\ tasks[s].timer.remainingMs < timers[tasks[s].id].remainingMs
    /\ timers[tasks[s].id].remainingMs = timers[tasks[s].id].durationMs

\* -------------------------------------------------------------------- C14
\* the live wake-ups of id: pending waits, neither aborted nor fired
Live(id) == {c \in Ctls : waits[c].id = id /\ waits[c].st = "sleeping"}

\* C14: after any sequence of schedule and cancel calls, each id has at most
\* one live wake-up.
C14_OneLiveWakeUp ==
  \A id \in Ids : Cardinality(Live(id)) <= 1

\* -------------------------------------------------------------------- C15
\* the step invokes the callback of wait c
Invokes(c) == waits[c].st = "sleeping" /\ waits'[c].st = "calling"

\* C15: once cancel(id) has returned, and until schedule(id) is called again,
\* no wake-up of id invokes its callback; cancel(id) with no registration
\* changes nothing in the scheduler.
C15_CancelIsEffective ==
  [][/\ \A c \in Ctls : Invokes(c) => waits[c].id \notin canceledIds
     /\ \A id \in Ids :
          (id \notin canceledIds /\ id \in canceledIds' /\ scheduledTimers[id] = 0)
            => UNCHANGED <<scheduledTimers, waits>>]_vars

\* -------------------------------------------------------------------- C16
\* C16: once shutdown() has returned, the registration table is empty and no
\* wake-up invokes its callback.
C16_ShutdownCancelsAll ==
  [][shutDown => /\ \A id \in Ids : scheduledTimers[id] = 0
                 /\ \A c \in Ctls : ~Invokes(c)]_vars

\* -------------------------------------------------------------------- C17
\* every wait but c, and every registration but the one of c's id, is left
\* as it was
OthersKept(c) ==
  /\ \A o \in Ctls \ {c} : waits'[o] = waits[o]
  /\ \A i \in Ids \ {waits[c].id} : scheduledTimers'[i] = scheduledTimers[i]

\* C17: a completion callback that raises is contained by the scheduler: the
\* rejection of a failed completeTimer goes to the schedule call that awaits
\* it and nowhere else; the catch block takes it and throws nothing; the
\* finally block then ends the call and releases the registration of its id;
\* the waits and registrations of other ids are left as they were.
C17_CallbackFailureContained ==
  [][/\ \A s \in Slots :
          (tasks[s].op = "complete" /\ tasks[s].pc = "storeFailed" /\ tasks'[s] # tasks[s])
            => /\ tasks'[s] = Idle
               /\ waits[tasks[s].wait].st = "calling"
               /\ waits'[tasks[s].wait].st = "threw"
               /\ OthersKept(tasks[s].wait)
               /\ UNCHANGED <<scheduledTimers, events>>
     /\ \A c \in Ctls :
          (waits[c].st = "threw" /\ waits'[c] # waits[c])
            => /\ waits'[c] = [waits[c] EXCEPT !.st = "cleanup"]
               /\ OthersKept(c)
               /\ UNCHANGED <<scheduledTimers, tasks, events>>
     /\ \A c \in Ctls :
          (waits[c].st = "cleanup" /\ waits'[c] # waits[c])
            => /\ waits'[c] = NoWait
               /\ scheduledTimers'[waits[c].id] = 0
               /\ OthersKept(c)]_vars

\* the callback of one id has raised and the scheduler has not handled it
\* yet, while the wake-up of another id is pending and due
C17_Witness ==
  \E c \in Ctls, o \in Ctls :
    /\ waits[c].st = "threw"
    /\ waits[o].st = "sleeping"
    /\ waits[o].id # waits[c].id
    /\ now >= waits[o].due

\* -------------------------------------------------------------------- C20
EngineCalls == {"create", "pause", "resume", "cancel"}

\* C20: when store.get or store.put fails during createTimer, pauseTimer,
\* resumeTimer or cancelTimer, the operation rejects to its caller, and
\* neither the step that meets the failure, nor the rejection, nor the
\* caller's receipt of it changes the scheduler's registrations and waits or
\* the events.
C20_StoreFailurePropagates ==
  [][\A s \in Slots :
       /\ (tasks'[s].op \in EngineCalls /\ tasks'[s].pc = "storeFailed"
                                       /\ tasks[s].pc # "storeFailed")
            => UNCHANGED <<scheduledTimers, waits, events>>
       /\ (tasks[s].op \in EngineCalls /\ tasks[s].pc = "storeFailed"
                                      /\ tasks'[s] # tasks[s])
            => /\ tasks'[s] = [tasks[s] EXCEPT !.pc = "rejected"]
               /\ UNCHANGED <<scheduledTimers, waits, events>>
       /\ (tasks[s].op \in EngineCalls /\ tasks[s].pc = "rejected"
                                      /\ tasks'[s] # tasks[s])
            => /\ tasks'[s] = Idle
               /\ UNCHANGED <<scheduledTimers, waits, events>>]_vars

\* a resumeTimer whose put failed has rejected: the timer is still Paused in
\* the store, no wake-up is registered for it and no `resumed` event is out
C20_Witness ==
  \E s \in Slots :
    /\ tasks[s].op = "resume" /\ tasks[s].pc = "rejected"
    /\ tasks[s].timer.status = RUNNING
    /\ timers[tasks[s].id].status = PAUSED
    /\ scheduledTimers[tasks[s].id] = 0
    /\ Count(TIMER_PAUSED, tasks[s].id) = 1
    /\ Count(TIMER_RESUMED, tasks[s].id) = 0

\* -------------------------------------------------------------------- C18
\* C18: when the delivery of an event runs, every handler subscribed to the
\* event's type is invoked with it, whether or not another handler of the
\* type throws; and emit itself invokes no handler, so that no handler's
\* error reaches the operation that emits.
C18_DeliveryIsolated ==
  [][/\ Len(immediates') < Len(immediates)
          => LET event == Head(immediates) IN
             \A h \in Range(listeners[events[event].type].handlers) :
               handled'[h] = Append(handled[h], event)
     /\ Len(events') > Len(events)
          => /\ handled' = handled
             /\ listeners' = listeners]_vars

\* a handler that throws was subscribed to a type before another handler,
\* and both have been invoked with the same event of that type
C18_Witness ==
  \E type \in BusTypes, thrower \in ThrowingHandlers, other \in Handlers \ ThrowingHandlers :
    /\ listeners[type].handlers = <<thrower, other>>
    /\ handled[thrower] # <<>> /\ handled[other] # <<>>
    /\ handled[thrower][Len(handled[thrower])] = handled[other][Len(handled[other])]
    /\ events[handled[other][Len(handled[other])]].type = type

\* -------------------------------------------------------------------- C19
\* C19: every handler is invoked with the events of one timer id in the order
\* in which they were emitted: of two events of one id it has handled, the one
\* handled first is the one emitted first.
C19_DeliveryInOrder ==
  \A h \in Handlers :
    \A a \in 1..Len(handled[h]), b \in 1..Len(handled[h]) :
      (a < b /\ events[handled[h][a]].id = events[handled[h][b]].id)
        => handled[h][a] < handled[h][b]

\* a handler has handled the `created` and then the `completed` of one id,
\* and an event of another id was emitted between the two
C19_Witness ==
  \E h \in Handlers, id \in Ids :
    /\ Len(events) = MaxEmitted
    /\ events[1] = [type |-> TIMER_CREATED, id |-> id]
    /\ events[2].id # id
    /\ events[3] = [type |-> TIMER_COMPLETED, id |-> id]
    /\ handled[h] = <<1, 3>>

\* -------------------------------------------------------------------- C21
\* C21: the id a createTimer call writes its record under is the id of no
\* record in the store, and when the call schedules the completion no wake-up
\* is registered under that id: createTimer overwrites no record and
\* supersedes no wake-up.
C21_FreshId ==
  [][\A s \in Slots :
       /\ (Called(s, "create") /\ tasks'[s].pc = "afterPut")
            => timers[tasks'[s].id] = Null
       /\ Stepped(s, "create", "afterPut", "idle")
            => scheduledTimers[tasks[s].id] = 0]_vars

\* -------------------------------------------------------------------- C22
\* C22: a pauseTimer that fetched a Running record writes that record with
\* remainingMs = max(0, durationMs - (now - startMonotonicMs)), status Paused
\* and the paused flag set, durationMs and startMonotonicMs as they were, and
\* emits nothing yet; when it returns it has emitted one `paused` event and
\* the scheduler holds no registration and no live wake-up for the id.
C22_PauseSnapshots ==
  [][\A s \in Slots :
       /\ (/\ Stepped(s, "pause", "afterGet", "afterPut")
           /\ timers[tasks[s].id].status = RUNNING)
            => LET id == tasks[s].id
                   elapsed == now - timers[id].startMonotonicMs
               IN /\ timers'[id] =
                       [timers[id] EXCEPT !.remainingMs = Max(0, timers[id].durationMs - elapsed),
                                          !.status = PAUSED,
                                          !.paused = TRUE]
                  /\ timers'[id].durationMs = timers[id].durationMs
                  /\ timers'[id].startMonotonicMs = timers[id].startMonotonicMs
                  /\ events' = events
       /\ Stepped(s, "pause", "afterPut", "idle")
            => /\ events' = Append(events, [type |-> TIMER_PAUSED, id |-> tasks[s].id])
               /\ scheduledTimers'[tasks[s].id] = 0
               /\ \A c \in Ctls :
                    ~(waits'[c].id = tasks[s].id /\ waits'[c].st = "sleeping")]_vars

\* -------------------------------------------------------------------- C23
\* C23: when the delivery of an event runs, the handlers invoked with it are
\* exactly the handlers that were subscribed to its type when emit was called,
\* each once; a handler is never invoked with an event emitted while it was
\* not subscribed to the event's type.
C23_DeliversToSubscribersAtEmit ==
  [][Len(immediates') < Len(immediates)
       => LET event == Head(immediates) IN
          \A h \in Handlers :
            handled'[h] = IF h \in subscribedAtEmit[event]
                            THEN Append(handled[h], event)
                            ELSE handled[h]]_vars

\* -------------------------------------------------------------------- C24
\* the status an event announces
Announced(type) ==
  CASE type = TIMER_CREATED   -> RUNNING
    [] type = TIMER_PAUSED    -> PAUSED
    [] type = TIMER_RESUMED   -> RUNNING
    [] type = TIMER_CANCELED  -> CANCELED
    [] type = TIMER_COMPLETED -> COMPLETED

\* C24: an event is emitted by a call that has written the record of the
\* transition and whose write has completed, and at the moment it is emitted
\* the store holds a record of the event's id with the status the event
\* announces.
C24_PersistedBeforeEmit ==
  [][Len(events') > Len(events)
       => LET event == events'[Len(events')] IN
          /\ \E s \in Slots :
               /\ tasks[s].pc = "afterPut" /\ tasks'[s].op = "idle"
               /\ tasks[s].id = event.id
               /\ tasks[s].timer.status = Announced(event.type)
          /\ timers[event.id].status = Announced(event.type)]_vars

\* -------------------------------------------------------------------- C25
\* the callers have stopped calling, the stored status of id is Running, no
\* createTimer, pauseTimer, resumeTimer or cancelTimer on id is in progress,
\* and createTimer returned id once
RunningForGood(id) ==
  /\ Len(events) >= MaxLiveEvents
  /\ KnownOnce(id)
  /\ timers[id].status = RUNNING
  /\ ~InProgress({"create", "pause", "resume", "cancel"}, id)

\* the record of id is Completed and a `completed` event of id is out, or a
\* wake-up of id is pending that is due after the last clock value modelled
CompletedOrPending(id) ==
  \/ /\ timers[id].status = COMPLETED
     /\ Count(TIMER_COMPLETED, id) >= 1
  \/ \E c \in Ctls :
       waits[c].id = id /\ waits[c].st = "sleeping" /\ waits[c].due > MaxTime

\* C25: a timer whose stored status is Running, with no engine call on it in
\* progress and none to come, eventually has status Completed and a
\* `completed` event (within the clock values modelled).
C25_RunningCompletes ==
  \A id \in SerialIds : RunningForGood(id) ~> CompletedOrPending(id)

\* -------------------------------------------------------------------- C26
\* C26: whenever no engine operation and no firing callback on an id is in
\* progress, the scheduler holds a live wake-up for the id exactly if the
\* stored status of the id is Running.  The ids are those createTimer
\* returned once.
C26_StoreAndSchedulerInStep ==
  \A id \in Ids :
    (/\ KnownOnce(id)
     /\ ~InProgress({"create", "pause", "resume", "cancel", "complete"}, id))
      => (Live(id) # {} <=> timers[id].status = RUNNING)

\* -------------------------------------------------------------------- C27
\* the running time a record still owes at time t: for a Running record what
\* is left of its current run segment, for a Paused one the snapshot
Owed(timer, t) ==
  IF timer.status = PAUSED THEN timer.remainingMs
  ELSE Max(0, timer.startMonotonicMs + timer.durationMs - t)

\* C27: when completeTimer writes Completed over a Running or Paused record,
\* the record owes no running time: the monotonic time is at least
\* startMonotonicMs + durationMs of a Running record, and the snapshot of a
\* Paused one is 0.  The ids are those createTimer returned once.
C27_NoPrematureCompletion ==
  [][\A s \in Slots, id \in Ids :
       (/\ Stepped(s, "complete", "afterGet", "afterPut")
        /\ tasks[s].id = id
        /\ KnownOnce(id) /\ ~InProgress({"create"}, id)
        /\ timers[id].status \in {RUNNING, PAUSED})
         => Owed(timers[id], now) = 0]_vars
====
